---- MODULE Spec2Model ----
(***************************************************************************)
(* EMA 9/15 trading bot: the strategy (indicators, signal, risk sizing,    *)
(* exit conditions), the backtest replay driver and the polling drivers    *)
(* (backtest_strategy, paper trading, Angel One, Mudrex crypto), the       *)
(* paper-trading simulator with the trades table, and the BotRunner        *)
(* supervisor.                                                             *)
(*                                                                         *)
(* Numbers.  The program computes in binary floating point.  The model     *)
(* computes in fixed point: a price or an amount of money is an integer    *)
(* number of ticks, Scale ticks to one currency unit, and every division   *)
(* rounds down.  Candle highs and lows are whole currency units, so the    *)
(* stop-loss factors 0.998 and 1.002 are exact (the feed priced below one  *)
(* unit is the exception: its stops round down to the tick).               *)
(* risk_per_trade is held in                                               *)
(* percent.  A candle's timestamp is its index in the series; its open is  *)
(* never read by the strategy and is left out.                             *)
(***************************************************************************)
EXTENDS Integers, Sequences, FiniteSets, TLC

\* ------------------------------------------------------------------------
\* Bounds of the model
\* ------------------------------------------------------------------------
MaxTail == 3
MaxRuns == 2

\* ticks per currency unit: the unit of the fixed-point representation
Scale == 10 * 100

\* ------------------------------------------------------------------------
\* Program constants
\* ------------------------------------------------------------------------
WarmUp == 30
FastSpan == 9
SlowSpan == 15
RsiPeriod == 14
RsiOverbought == 70
RsiOversold == 30
VolumeLookback == 5
SRWindow == 20
SwingWindow == 10

\* candles before the first move of an input series: the warm-up less one, so
\* that the second move is the first bar the replay processes
FlatLen == WarmUp - 1

None == "None"

Abs(x) == IF x < 0 THEN -x ELSE x
Min2(a, b) == IF a <= b THEN a ELSE b

\* data.iloc[-k:]: the last k rows, all of them when there are fewer
Last(data, k) == SubSeq(data, IF Len(data) > k THEN Len(data) - k + 1 ELSE 1, Len(data))

\* data.iloc[:i+1]: rows 0..i (0-based)
Window(data, i) == SubSeq(data, 1, i + 1)

Closes(data) == [k \in 1..Len(data) |-> data[k].close]

SeqMin(xs) == CHOOSE m \in {xs[k] : k \in 1..Len(xs)} : \A k \in 1..Len(xs) : m <= xs[k]
SeqMax(xs) == CHOOSE m \in {xs[k] : k \in 1..Len(xs)} : \A k \in 1..Len(xs) : m >= xs[k]

RECURSIVE SeqSum(_)
SeqSum(xs) == IF Len(xs) = 0 THEN 0 ELSE xs[1] + SeqSum(Tail(xs))

\* ------------------------------------------------------------------------
\* EMAStrategy: indicators
\* ------------------------------------------------------------------------

\* Series.ewm(span, adjust=False).mean(): y[0] = x[0],
\* y[t] = (1 - a) * y[t-1] + a * x[t] with a = 2 / (span + 1)
RECURSIVE EwmMean(_, _)
EwmMean(xs, span) ==
    IF Len(xs) = 0 THEN <<>>
    ELSE IF Len(xs) = 1 THEN <<xs[1]>>
    ELSE LET prev == EwmMean(SubSeq(xs, 1, Len(xs) - 1), span)
         IN  Append(prev, (2 * xs[Len(xs)] + (span - 1) * prev[Len(prev)]) \div (span + 1))

calculate_ema(data, period) == EwmMean(Closes(data), period)

\* The RSI of the latest bar.  gain and loss are the rolling means of the
\* positive and negative close differences over the last `period` bars (the
\* difference of the first bar counts as 0); both means have the same
\* divisor, so rs = gain / loss is the quotient of the two sums.
\*   fewer than `period` bars, or gain = loss = 0 (0/0): NaN
\*   loss = 0 < gain: rs = inf and rsi = 100 - 100/inf = 100
\*   otherwise rsi = 100 - 100 / (1 + rs) = 100 * gain / (gain + loss)
\* The value is the fraction num / den.
calculate_rsi(data, period) ==
    LET n     == Len(data)
        delta(k) == IF k <= 1 THEN 0 ELSE data[k].close - data[k - 1].close
        gains == [k \in 1..period |-> IF delta(n - period + k) > 0 THEN delta(n - period + k) ELSE 0]
        losss == [k \in 1..period |-> IF delta(n - period + k) < 0 THEN -delta(n - period + k) ELSE 0]
        gain  == SeqSum(gains)
        loss  == SeqSum(losss)
    IN  IF n < period THEN [nan |-> TRUE, num |-> 0, den |-> 1]
        ELSE IF loss = 0 /\ gain = 0 THEN [nan |-> TRUE, num |-> 0, den |-> 1]
        ELSE IF loss = 0 THEN [nan |-> FALSE, num |-> 100, den |-> 1]
        ELSE [nan |-> FALSE, num |-> 100 * gain, den |-> gain + loss]

\* comparisons with a NaN are false
RsiBelow(rsi, level) == ~rsi.nan /\ rsi.num < level * rsi.den
RsiAbove(rsi, level) == ~rsi.nan /\ rsi.num > level * rsi.den

calculate_macd(data) ==
    LET exp1 == EwmMean(Closes(data), 12)
        exp2 == EwmMean(Closes(data), 26)
        macd == [k \in 1..Len(data) |-> exp1[k] - exp2[k]]
        signal == EwmMean(macd, 9)
    IN  [macd |-> macd, signal |-> signal,
         histogram |-> [k \in 1..Len(data) |-> macd[k] - signal[k]]]

\* current_volume > avg_volume * 1.2, avg over the `lookback` bars before
\* the current one
check_volume_increase(data, lookback) ==
    IF Len(data) < lookback + 1 THEN FALSE
    ELSE LET current_volume == data[Len(data)].volume
             before == SubSeq(data, Len(data) - lookback, Len(data) - 1)
             sum_volume == SeqSum([k \in 1..lookback |-> before[k].volume])
         IN  current_volume * lookback * 10 > sum_volume * 12

find_support_resistance(data, window) ==
    IF Len(data) < window THEN [known |-> FALSE, support |-> 0, resistance |-> 0]
    ELSE LET w == Last(data, window)
         IN  [known |-> TRUE,
              support |-> SeqMin([k \in 1..Len(w) |-> w[k].low]),
              resistance |-> SeqMax([k \in 1..Len(w) |-> w[k].high])]

\* abs(price - level) / price < 0.005
is_near_support_resistance(price, sr) ==
    IF ~sr.known THEN TRUE
    ELSE LET near_support == Abs(price - sr.support) * 1000 < 5 * price
             near_resistance == Abs(price - sr.resistance) * 1000 < 5 * price
         IN  near_support \/ near_resistance

\* ------------------------------------------------------------------------
\* EMAStrategy: signal
\* ------------------------------------------------------------------------
bullish_cross(data) ==
    LET ema9 == calculate_ema(data, FastSpan)
        ema15 == calculate_ema(data, SlowSpan)
        n == Len(data)
    IN  ema9[n - 1] <= ema15[n - 1] /\ ema9[n] > ema15[n]

\* bearish_cross with the comparison on the latest bar turned round
bearish_cross_turned(data) ==
    LET ema9 == calculate_ema(data, FastSpan)
        ema15 == calculate_ema(data, SlowSpan)
        n == Len(data)
    IN  ema9[n - 1] >= ema15[n - 1] /\ ema9[n] > ema15[n]

bearish_cross(data) ==
    LET ema9 == calculate_ema(data, FastSpan)
        ema15 == calculate_ema(data, SlowSpan)
        n == Len(data)
    IN  ema9[n - 1] >= ema15[n - 1] /\ ema9[n] < ema15[n]

\* generate_signal without the volume confirmation
generate_signal_no_volume(data) ==
    IF Len(data) < WarmUp THEN None
    ELSE
    LET n == Len(data)
        ema9 == calculate_ema(data, FastSpan)
        rsi == calculate_rsi(data, RsiPeriod)
        m == calculate_macd(data)
        current_price == data[n].close
        near_key_level == is_near_support_resistance(current_price,
                              find_support_resistance(data, SRWindow))
    IN  IF bullish_cross(data)
        THEN IF /\ RsiBelow(rsi, RsiOverbought)
                /\ m.macd[n] > m.signal[n]
                /\ current_price > ema9[n]
                /\ near_key_level
             THEN "BUY" ELSE None
        ELSE IF bearish_cross(data)
        THEN IF /\ RsiAbove(rsi, RsiOversold)
                /\ m.macd[n] < m.signal[n]
                /\ current_price < ema9[n]
                /\ near_key_level
             THEN "SELL" ELSE None
        ELSE None

generate_signal(data) ==
    IF Len(data) < WarmUp THEN None
    ELSE
    LET n == Len(data)
        ema9 == calculate_ema(data, FastSpan)
        rsi == calculate_rsi(data, RsiPeriod)
        m == calculate_macd(data)
        current_price == data[n].close
        volume_confirmed == check_volume_increase(data, VolumeLookback)
        near_key_level == is_near_support_resistance(current_price,
                              find_support_resistance(data, SRWindow))
    IN  IF bullish_cross(data)
        THEN IF /\ volume_confirmed
                /\ RsiBelow(rsi, RsiOverbought)
                /\ m.macd[n] > m.signal[n]
                /\ current_price > ema9[n]
                /\ near_key_level
             THEN "BUY" ELSE None
        ELSE IF bearish_cross(data)
        THEN IF /\ volume_confirmed
                /\ RsiAbove(rsi, RsiOversold)
                /\ m.macd[n] < m.signal[n]
                /\ current_price < ema9[n]
                /\ near_key_level
             THEN "SELL" ELSE None
        ELSE None

\* ------------------------------------------------------------------------
\* EMAStrategy: risk sizing
\* ------------------------------------------------------------------------

\* capital in ticks, risk_per_trade in percent, prices in ticks
calculate_position_size(capital, risk_per_trade, entry_price, stop_loss_price) ==
    LET risk_amount == (capital * risk_per_trade) \div 100
        risk_per_share == Abs(entry_price - stop_loss_price)
    IN  IF risk_per_share = 0 THEN 0
        ELSE Min2(risk_amount \div risk_per_share, capital \div entry_price)

calculate_stop_loss_target(data, signal_type) ==
    LET current_price == data[Len(data)].close
        w == Last(data, SwingWindow)
    IN  IF signal_type = "BUY"
        THEN LET swing_low == SeqMin([k \in 1..Len(w) |-> w[k].low])
                 stop_loss == (swing_low * 998) \div 1000
                 risk == current_price - stop_loss
             IN  [stop_loss |-> stop_loss, target |-> current_price + risk * 2]
        ELSE LET swing_high == SeqMax([k \in 1..Len(w) |-> w[k].high])
                 stop_loss == (swing_high * 1002) \div 1000
                 risk == stop_loss - current_price
             IN  [stop_loss |-> stop_loss, target |-> current_price - risk * 2]

\* ------------------------------------------------------------------------
\* EMAStrategy: exit conditions
\* ------------------------------------------------------------------------
check_exit_conditions(pos, stop, tgt, data) ==
    LET current_price == data[Len(data)].close
    IN  IF pos = None THEN FALSE
        ELSE IF pos = "LONG" /\ current_price <= stop THEN TRUE
        ELSE IF pos = "LONG" /\ current_price >= tgt THEN TRUE
        ELSE IF pos = "SHORT" /\ current_price >= stop THEN TRUE
        ELSE IF pos = "SHORT" /\ current_price <= tgt THEN TRUE
        ELSE IF pos = "LONG" /\ bearish_cross(data) THEN TRUE
        ELSE IF pos = "SHORT" /\ bullish_cross(data) THEN TRUE
        ELSE FALSE

\* ------------------------------------------------------------------------
\* State
\* ------------------------------------------------------------------------
VARIABLES
    data,             \* the candle series handed to run_backtest
    initial_capital,  \* BacktestEngine.initial_capital
    risk_per_trade,   \* EMAStrategy.risk_per_trade, percent
    capital,          \* BacktestEngine.capital
    position,         \* EMAStrategy.position
    entry_price,      \* EMAStrategy.entry_price
    stop_loss,        \* EMAStrategy.stop_loss
    target,           \* EMAStrategy.target
    current_trade,    \* run_backtest's local current_trade
    trades,           \* BacktestEngine.trades
    equity_curve,     \* BacktestEngine.equity_curve
    i,                \* run_backtest's loop index (0-based bar)
    should_exit,      \* run_backtest's local: result of the exit check on this bar
    signal,           \* run_backtest's local: result of generate_signal on this bar
    results,          \* what run_backtest returned
    pc,               \* where run_backtest is
    error,            \* the exception run_backtest raised, if any
    runs,             \* calls made so far: run_backtest, or the simulator's methods
    engine_runs,      \* run_backtest calls made on the current engine
    prev_trades,      \* the caller's copy of the previous replay's trades
    prev_equity,      \* the caller's copy of the previous replay's equity curve
    driver,           \* which loop drives the strategy
    orders,           \* orders the broker accepted, oldest first
    order_ids,        \* the live loops' entry_order_id, sl_order_id, target_order_id
    clock,            \* datetime.now() as <<hour, minute>> at the last poll
    db,               \* the trades table of trading_data.db: trade_id -> row
    wall_clock,       \* datetime.now() of the paper simulator, in seconds
    use_real_data,    \* simulate_paper_trading's use_real_data
    pid_file,         \* bot.pid: the pid it holds, 0 when the file is absent
    status_file,      \* bot_status.txt: status and mode
    processes,        \* the pids of the bot processes that are running
    runner,           \* each BotRunner instance: where its start request is
    spawned           \* bot processes spawned so far

trading_vars == <<data, initial_capital, risk_per_trade, capital, position, entry_price,
                  stop_loss, target, current_trade, trades, equity_curve, i, should_exit,
                  signal, results, pc, error, runs, engine_runs, prev_trades, prev_equity,
                  driver, orders, order_ids, clock, db, wall_clock, use_real_data>>

supervisor_vars == <<pid_file, status_file, processes, runner, spawned>>

vars == <<trading_vars, supervisor_vars>>

strategy_vars == <<position, entry_price, stop_loss, target>>
config_vars == <<data, initial_capital, risk_per_trade>>
caller_vars == <<prev_trades, prev_equity>>
live_vars == <<driver, orders, order_ids, clock>>
env_vars == <<db, wall_clock, use_real_data>>

\* ------------------------------------------------------------------------
\* Inputs
\* ------------------------------------------------------------------------
Candle(c, h, l, v) == [close |-> c, high |-> h * Scale, low |-> l * Scale, volume |-> v]

\* a feed of well-formed candles (low <= close <= high)
ValidFlat == Candle(100 * Scale, 100, 100, 100)
ValidMoves == {Candle(97 * Scale, 98, 97, 200), Candle(103 * Scale, 103, 102, 200),
               Candle(116 * Scale, 116, 115, 100), Candle(80 * Scale, 81, 80, 100)}

\* a feed whose high and low are stuck at 105 whatever the close (candles are
\* not validated by the strategy)
StuckFlat == Candle(100 * Scale, 105, 105, 100)
StuckMoves == {Candle(96 * Scale, 105, 105, 100), Candle(104790, 105, 105, 200),
               Candle(104600, 105, 105, 200), Candle(105 * Scale, 105, 105, 200)}

Flat(c, n) == [k \in 1..n |-> c]

Tails(moves) == UNION {[1..n -> moves] : n \in 1..MaxTail}

\* two series on which a position stays open over a bar that moves the price
HeldSeries ==
    {Flat(ValidFlat, FlatLen) \o <<Candle(103 * Scale, 103, 102, 200), Candle(97 * Scale, 98, 97, 200),
                                   Candle(96 * Scale, 97, 96, 100)>>,
     Flat(ValidFlat, FlatLen) \o <<Candle(97 * Scale, 98, 97, 200), Candle(103 * Scale, 103, 102, 200),
                                   Candle(104 * Scale, 104, 103, 100)>>}

SeriesSet ==
    {Flat(ValidFlat, n) : n \in {0, 1, FlatLen, FlatLen + 1, FlatLen + 2}}
    \cup {Flat(ValidFlat, FlatLen) \o t : t \in Tails(ValidMoves)}
    \cup HeldSeries
    \cup {Flat(StuckFlat, FlatLen) \o t : t \in Tails(StuckMoves)}

\* (initial_capital, risk_per_trade in percent)
Configs == {<<10000 * Scale, 2>>, <<10000 * Scale, 10>>, <<50 * Scale, 2>>}

NoTrade == [signal_type |-> None, entry_time |-> 0, entry_price |-> 0,
            quantity |-> 0, stop_loss |-> 0, target |-> 0]

\* the trades table with no row
EmptyDb == [id \in {} |-> 0]

NoOrderIds == [entry |-> FALSE, sl |-> FALSE, target |-> FALSE]

\* what run_backtest returns is held as a sequence: empty for None, else the
\* one results dict
NoResults == <<>>

\* the BotRunner instances (app.py builds one per dashboard session)
Runners == {1, 2}

NoStatus == [status |-> None, mode |-> None]
IdleRunner == [pc |-> "idle", mode |-> None, pid |-> 0, returned |-> None]

\* no bot was ever started: bot.pid and bot_status.txt do not exist
SupervisorInit ==
    /\ pid_file = 0
    /\ status_file = NoStatus
    /\ processes = {}
    /\ runner = [r \in Runners |-> IdleRunner]
    /\ spawned = 0

\* ------------------------------------------------------------------------
\* BacktestEngine
\* ------------------------------------------------------------------------

\* BacktestEngine.__init__ hands the strategy its capital once
strategy_capital == initial_capital

\* run_live_trading_angel_one builds EMAStrategy(capital, risk_per_trade=0.02)
\* whatever risk is configured; the other modes hand the configured risk on
AngelRisk == 2
strategy_risk == IF driver = "angel" THEN AngelRisk ELSE risk_per_trade

Init ==
    /\ SupervisorInit
    /\ data \in SeriesSet
    /\ \E cfg \in Configs : initial_capital = cfg[1] /\ risk_per_trade = cfg[2]
    /\ capital = initial_capital
    /\ position = None
    /\ entry_price = 0
    /\ stop_loss = 0
    /\ target = 0
    /\ current_trade = NoTrade
    /\ trades = <<>>
    /\ equity_curve = <<>>
    /\ i = 0
    /\ should_exit = "unset"
    /\ signal = "unset"
    /\ results = NoResults
    /\ pc = "ready"
    /\ error = "none"
    /\ runs = 0
    /\ engine_runs = 0
    /\ prev_trades = <<>>
    /\ prev_equity = <<>>
    /\ driver = "backtest"
    /\ orders = <<>>
    /\ order_ids = NoOrderIds
    /\ clock = <<0, 0>>
    /\ db = EmptyDb
    /\ wall_clock = 0
    /\ use_real_data = TRUE

\* run_backtest up to the loop: the header reads data['timestamp'].iloc[0],
\* which raises IndexError on an empty series; then the reset
\* a curve that starts empty
EmptyEquityCurve == <<>>

\* self.equity_curve = [self.initial_capital]: the curve a replay starts with
InitialEquityCurve == <<initial_capital>>

\* a capital carried over from the replay before
carried_capital == capital

\* self.capital = self.initial_capital: the capital a replay starts with
reset_capital == initial_capital

Prologue ==
    /\ should_exit' = "unset"
    /\ signal' = "unset"
    /\ results' = NoResults
    /\ IF Len(data) = 0
       THEN /\ error' = "IndexError"
            /\ pc' = "raised"
            /\ UNCHANGED <<capital, trades, equity_curve, current_trade, i>>
       ELSE /\ error' = "none"
            /\ capital' = reset_capital
            /\ trades' = <<>>
            /\ equity_curve' = InitialEquityCurve
            /\ current_trade' = NoTrade
            /\ i' = WarmUp
            /\ pc' = IF WarmUp < Len(data) THEN "exit" ELSE "results"

\* the first run_backtest on a new engine
RunBacktest ==
    /\ UNCHANGED supervisor_vars
    /\ UNCHANGED env_vars
    /\ UNCHANGED live_vars
    /\ pc = "ready"
    /\ Prologue
    /\ runs' = runs + 1
    /\ engine_runs' = engine_runs + 1
    /\ UNCHANGED <<strategy_vars, config_vars, caller_vars>>

\* run_backtest called again on the same engine with the same series
RunAgain ==
    /\ UNCHANGED supervisor_vars
    /\ UNCHANGED env_vars
    /\ UNCHANGED live_vars
    /\ pc = "done"
    /\ runs < MaxRuns
    /\ prev_trades' = trades
    /\ prev_equity' = equity_curve
    /\ Prologue
    /\ runs' = runs + 1
    /\ engine_runs' = engine_runs + 1
    /\ UNCHANGED <<strategy_vars, config_vars>>

\* a new BacktestEngine with the same configuration, and run_backtest on it
RunFresh ==
    /\ UNCHANGED supervisor_vars
    /\ UNCHANGED env_vars
    /\ UNCHANGED live_vars
    /\ pc = "done"
    /\ runs < MaxRuns
    /\ prev_trades' = trades
    /\ prev_equity' = equity_curve
    /\ position' = None
    /\ entry_price' = 0
    /\ stop_loss' = 0
    /\ target' = 0
    /\ Prologue
    /\ runs' = runs + 1
    /\ engine_runs' = 1
    /\ UNCHANGED config_vars

\* a trade record that reports the planned target as the exit price
trade_record_at_target(ct, bar, exit_price, pnl) ==
    [trade_id |-> <<"BT", bar>>,
     signal_type |-> ct.signal_type,
     entry_time |-> ct.entry_time,
     exit_time |-> bar,
     entry_price |-> ct.entry_price,
     exit_price |-> ct.target,
     quantity |-> ct.quantity,
     stop_loss |-> ct.stop_loss,
     target |-> ct.target,
     pnl |-> pnl,
     status |-> "CLOSED",
     mode |-> "backtest"]

\* the trade_record dict of run_backtest; 'BT_{i}' is held as <<"BT", i>>, the
\* timestamps as bar indices
trade_record(ct, bar, exit_price, pnl) ==
    [trade_id |-> <<"BT", bar>>,
     signal_type |-> ct.signal_type,
     entry_time |-> ct.entry_time,
     exit_time |-> bar,
     entry_price |-> ct.entry_price,
     exit_price |-> exit_price,
     quantity |-> ct.quantity,
     stop_loss |-> ct.stop_loss,
     target |-> ct.target,
     pnl |-> pnl,
     status |-> "CLOSED",
     mode |-> "backtest"]

\* the profit of a closed trade (run_backtest and exit_paper_trade compute it
\* with the same four lines), with the SHORT branch dropped
trade_pnl_long_only(signal_type, entry, exit_price, quantity) ==
    (exit_price - entry) * quantity

\* the profit of a closed trade: run_backtest and exit_paper_trade compute it
\* with the same four lines
trade_pnl(signal_type, entry, exit_price, quantity) ==
    IF signal_type = "BUY"
    THEN (exit_price - entry) * quantity
    ELSE (entry - exit_price) * quantity

\* TradingDatabase.insert_trade: INSERT OR REPLACE keyed by trade_id; an
\* sqlite3.Error of the statement is caught and the table left as it was
insert_trade(table, row, stored) ==
    IF stored
    THEN [id \in DOMAIN table \cup {row.trade_id} |->
             IF id = row.trade_id THEN row ELSE table[id]]
    ELSE table

Raise(e) ==
    /\ error' = e
    /\ pc' = "raised"

\* the exit check of bar i
ExitStep ==
    /\ UNCHANGED supervisor_vars
    /\ UNCHANGED <<wall_clock, use_real_data>>
    /\ UNCHANGED live_vars
    /\ pc = "exit"
    /\ signal' = "unset"
    /\ LET current_data == Window(data, i)
           current_candle == data[i + 1]
           exits == check_exit_conditions(position, stop_loss, target, current_data)
       IN  IF position # None
           THEN /\ should_exit' = IF exits THEN "True" ELSE "False"
                /\ IF exits
                   THEN IF current_trade = NoTrade
                        THEN \* current_trade is None: current_trade['entry_price']
                             /\ Raise("TypeError")
                             /\ UNCHANGED <<capital, trades, current_trade, position, db>>
                        ELSE LET exit_price == current_candle.close
                                 quantity == current_trade.quantity
                                 pnl == trade_pnl(current_trade.signal_type,
                                                  current_trade.entry_price, exit_price, quantity)
                             IN  /\ capital' = capital + pnl
                                 /\ trades' = Append(trades, trade_record(current_trade, i, exit_price, pnl))
                                 /\ \E stored \in BOOLEAN :
                                        db' = insert_trade(db, trade_record(current_trade, i, exit_price, pnl), stored)
                                 /\ current_trade' = NoTrade
                                 /\ position' = None
                                 /\ pc' = "entry"
                                 /\ UNCHANGED error
                   ELSE /\ pc' = "entry"
                        /\ UNCHANGED <<capital, trades, current_trade, position, error, db>>
           ELSE /\ should_exit' = "unset"
                /\ pc' = "entry"
                /\ UNCHANGED <<capital, trades, current_trade, position, error, db>>
    /\ UNCHANGED <<config_vars, caller_vars, entry_price, stop_loss, target,
                   equity_curve, i, results, runs, engine_runs>>

\* an entry check that does not look at the position
no_position_unchecked(pos) == TRUE

\* `if self.strategy.position is None:` in front of every entry check
no_position(pos) == pos = None

\* the entry check of bar i
EntryStep ==
    /\ UNCHANGED supervisor_vars
    /\ UNCHANGED env_vars
    /\ UNCHANGED live_vars
    /\ pc = "entry"
    /\ pc' = "equity"
    /\ LET current_data == Window(data, i)
           current_price == data[i + 1].close
           sig == generate_signal(current_data)
           plan == calculate_stop_loss_target(current_data, sig)
           quantity == calculate_position_size(strategy_capital, risk_per_trade,
                                               current_price, plan.stop_loss)
       IN  IF no_position(position)
           THEN /\ signal' = sig
                /\ IF sig # None /\ quantity > 0
                   THEN /\ current_trade' = [signal_type |-> sig,
                                             entry_time |-> i,
                                             entry_price |-> current_price,
                                             quantity |-> quantity,
                                             stop_loss |-> plan.stop_loss,
                                             target |-> plan.target]
                        /\ position' = IF sig = "BUY" THEN "LONG" ELSE "SHORT"
                        /\ entry_price' = current_price
                        /\ stop_loss' = plan.stop_loss
                        /\ target' = plan.target
                   ELSE UNCHANGED <<current_trade, strategy_vars>>
           ELSE UNCHANGED <<signal, current_trade, strategy_vars>>
    /\ UNCHANGED <<config_vars, caller_vars, capital, trades, equity_curve, i,
                   should_exit, results, error, runs, engine_runs>>

\* a mark-to-market that treats every open trade as a long one
unrealized_pnl_long_only(ct, current_price) ==
    (current_price - ct.entry_price) * ct.quantity

\* the mark-to-market of the open trade at the bar's close
unrealized_pnl(ct, current_price) ==
    IF ct.signal_type = "BUY"
    THEN (current_price - ct.entry_price) * ct.quantity
    ELSE (ct.entry_price - current_price) * ct.quantity

\* the equity point of bar i, and the step to the next bar
EquityStep ==
    /\ UNCHANGED supervisor_vars
    /\ UNCHANGED env_vars
    /\ UNCHANGED live_vars
    /\ pc = "equity"
    /\ LET current_price == data[i + 1].close
       IN  IF position # None /\ current_trade = NoTrade
           THEN \* current_trade is None: current_trade['entry_price']
                /\ Raise("TypeError")
                /\ UNCHANGED <<equity_curve, i>>
           ELSE /\ equity_curve' = Append(equity_curve,
                                          IF position # None
                                          THEN capital + unrealized_pnl(current_trade, current_price)
                                          ELSE capital)
                /\ i' = i + 1
                /\ pc' = IF i + 1 < Len(data) THEN "exit" ELSE "results"
                /\ UNCHANGED error
    /\ UNCHANGED <<config_vars, caller_vars, strategy_vars, capital, trades,
                   current_trade, should_exit, signal, results, runs, engine_runs>>

RECURSIVE SumPnl(_)
SumPnl(ts) == IF Len(ts) = 0 THEN 0 ELSE ts[1].pnl + SumPnl(Tail(ts))

\* trades_df[trades_df['pnl'] > 0] and trades_df[trades_df['pnl'] < 0]
Winning(ts) == SelectSeq(ts, LAMBDA t : t.pnl > 0)
Losing(ts) == SelectSeq(ts, LAMBDA t : t.pnl < 0)

\* equity_curve.pct_change().dropna(), in units of 1/10000
Returns(curve) ==
    [k \in 1..(Len(curve) - 1) |-> (curve[k + 1] - curve[k]) \div (curve[k] \div 10000)]

\* Series.mean
Mean(xs) == SeqSum(xs) \div Len(xs)

\* the integer square root
ISqrt(n) == CHOOSE r \in 0..n : r * r <= n /\ (r + 1) * (r + 1) > n

\* Series.std (sample standard deviation): NaN, held as -1, below two values
Std(xs) ==
    IF Len(xs) < 2 THEN -1
    ELSE ISqrt(SeqSum([k \in 1..Len(xs) |-> (xs[k] - Mean(xs)) * (xs[k] - Mean(xs))])
               \div (Len(xs) - 1))

\* profit_factor = total_wins / total_losses if total_losses > 0 else 0,
\* in hundredths
profit_factor(total_wins, total_losses) ==
    IF total_losses > 0 THEN (total_wins * 100) \div total_losses ELSE 0

\* sharpe_ratio = returns.mean() / returns.std() * sqrt(252) if
\* returns.std() > 0 else 0, in hundredths (NaN > 0 is False)
sharpe_ratio(returns) ==
    IF Std(returns) > 0 THEN (Mean(returns) * 1587) \div Std(returns) ELSE 0

\* calculate_results: None when no trade was closed
calculate_results ==
    IF Len(trades) = 0 THEN NoResults
    ELSE <<[total_trades |-> Len(trades),
            winning_trades |-> Len(Winning(trades)),
            losing_trades |-> Len(Losing(trades)),
            win_rate |-> (Len(Winning(trades)) * 100) \div Len(trades),
            total_pnl |-> SumPnl(trades),
            profit_factor |-> profit_factor(SumPnl(Winning(trades)),
                                            Abs(SumPnl(Losing(trades)))),
            sharpe_ratio |-> sharpe_ratio(Returns(equity_curve)),
            final_capital |-> capital]>>

Finish ==
    /\ UNCHANGED supervisor_vars
    /\ UNCHANGED env_vars
    /\ UNCHANGED live_vars
    /\ pc = "results"
    /\ results' = calculate_results
    /\ pc' = "done"
    /\ UNCHANGED <<config_vars, caller_vars, strategy_vars, capital, trades,
                   current_trade, equity_curve, i, should_exit, signal, error,
                   runs, engine_runs>>

Next ==
    \/ RunBacktest
    \/ RunAgain
    \/ RunFresh
    \/ ExitStep
    \/ EntryStep
    \/ EquityStep
    \/ Finish

Spec == Init /\ [][Next]_vars

\* ------------------------------------------------------------------------
\* The polling drivers: backtest_strategy, simulate_paper_trading,
\* run_live_trading_angel_one, run_crypto_trading
\*
\* data is the market's candle series and i the index of the latest candle a
\* fetch returns; one cycle is Poll, LiveExit, LiveEntry.
\* ------------------------------------------------------------------------
LiveDrivers == {"backtest_strategy", "paper", "angel", "crypto"}
BrokerDrivers == {"angel", "crypto"}

\* the loops that poll a market-data collaborator
PollingDrivers == {"paper", "angel", "crypto"}

\* a feed priced below one currency unit: closes, highs and lows in ticks
PennyFlat == [close |-> 500, high |-> 500, low |-> 500, volume |-> 100]
PennyMoves == {[close |-> 470, high |-> 475, low |-> 470, volume |-> 200],
               [close |-> 530, high |-> 530, low |-> 525, volume |-> 200],
               [close |-> 460, high |-> 465, low |-> 460, volume |-> 100]}

LiveMoves == {Candle(97 * Scale, 98, 97, 200), Candle(103 * Scale, 103, 102, 200)}

LiveSeries ==
    {Flat(ValidFlat, FlatLen) \o t : t \in Tails(LiveMoves)}
    \cup {Flat(PennyFlat, FlatLen) \o t : t \in Tails(PennyMoves)}

\* datetime.now() at a poll of the Angel One loop
TimeSet == {<<9, 0>>, <<9, 20>>, <<12, 0>>, <<14, 10>>, <<15, 40>>, <<16, 10>>}
NotEarlier(t, u) == t[1] > u[1] \/ (t[1] = u[1] /\ t[2] >= u[2])

\* (capital, configured risk_per_trade in percent) of each driver
DriverConfigs(d) ==
    IF d = "backtest_strategy" THEN {<<10000 * Scale, 2>>}
    ELSE IF d = "angel" THEN {<<10000 * Scale, 2>>, <<50 * Scale, 2>>, <<10000 * Scale, 10>>}
    ELSE IF d = "crypto" THEN {<<100 * Scale, 2>>}
    ELSE {<<10000 * Scale, 2>>, <<10000 * Scale, 10>>}

DriverInit ==
    /\ SupervisorInit
    /\ driver \in LiveDrivers \cup {"backtest"}
    /\ data \in LiveSeries
    /\ \E cfg \in DriverConfigs(driver) : initial_capital = cfg[1] /\ risk_per_trade = cfg[2]
    /\ capital = initial_capital
    /\ position = None
    /\ entry_price = 0
    /\ stop_loss = 0
    /\ target = 0
    /\ current_trade = NoTrade
    /\ trades = <<>>
    /\ equity_curve = <<>>
    /\ i = IF driver = "backtest" THEN 0
           ELSE IF driver = "backtest_strategy" THEN WarmUp - 1
           ELSE WarmUp - 2
    /\ should_exit = "unset"
    /\ signal = "unset"
    /\ results = NoResults
    /\ pc = IF driver = "backtest" THEN "ready"
            ELSE IF driver = "paper" THEN "start"
            ELSE "poll"
    /\ error = "none"
    /\ runs = 0
    /\ engine_runs = 0
    /\ prev_trades = <<>>
    /\ prev_equity = <<>>
    /\ orders = <<>>
    /\ order_ids = NoOrderIds
    /\ clock = <<0, 0>>
    /\ db = EmptyDb
    /\ wall_clock = 0
    /\ use_real_data = TRUE

\* the market-hours gate of run_live_trading_angel_one
MarketNotOpenYet(t) == t[1] < 9 \/ (t[1] = 9 /\ t[2] < 15)
MarketClosed(t) == t[1] >= 15 /\ t[2] >= 30
MidDay(t) == 11 <= t[1] /\ t[1] < 14

\* EMAStrategy.execute_trade: the strategy sizes the trade itself and takes
\* the position only when the quantity is positive
execute_trade(sig, window) ==
    LET current_price == window[Len(window)].close
        plan == calculate_stop_loss_target(window, sig)
        quantity == calculate_position_size(strategy_capital, strategy_risk,
                                            current_price, plan.stop_loss)
    IN  IF quantity > 0
        THEN /\ position' = IF sig = "BUY" THEN "LONG" ELSE "SHORT"
             /\ entry_price' = current_price
             /\ stop_loss' = plan.stop_loss
             /\ target' = plan.target
        ELSE UNCHANGED strategy_vars

\* EMAStrategy.exit_trade
exit_trade ==
    IF position # None
    THEN /\ position' = None
         /\ entry_price' = 0
         /\ stop_loss' = 0
         /\ target' = 0
    ELSE UNCHANGED strategy_vars

Order(kind, side, quantity, price) ==
    [kind |-> kind, side |-> side, quantity |-> quantity, price |-> price]

\* the candles a fetch returns end at bar i: one bar later than the previous
\* cycle's, or (paper trading polls every 60 s) the same bar again; the
\* simulated feed appends one generated candle per iteration
NextBars == IF driver = "paper" /\ use_real_data THEN {i, i + 1} ELSE {i + 1}

\* simulate_paper_trading before its loop (main calls it with crypto=True):
\* when the first fetch returns None the runner falls back to simulated data
InitialFetch ==
    /\ UNCHANGED supervisor_vars
    /\ driver = "paper"
    /\ pc = "start"
    /\ \E fetched \in BOOLEAN : use_real_data' = fetched
    /\ pc' = "poll"
    /\ UNCHANGED <<config_vars, caller_vars, strategy_vars, capital, current_trade,
                   trades, equity_curve, i, should_exit, signal, results, error,
                   runs, engine_runs, live_vars, db, wall_clock>>

\* the start of a cycle: the clock gate (Angel One) and the fetch
Poll ==
    /\ UNCHANGED supervisor_vars
    /\ UNCHANGED env_vars
    /\ pc = "poll"
    /\ driver \in LiveDrivers
    /\ should_exit' = "unset"
    /\ signal' = "unset"
    /\ \E bar \in NextBars :
          /\ bar < Len(data)
          /\ i' = bar
    /\ IF driver = "backtest_strategy"
       THEN \* for i in range(30, len(data))
            /\ pc' = "live_exit"
            /\ UNCHANGED clock
       ELSE IF driver = "angel"
       THEN \E now \in TimeSet, fetched \in BOOLEAN :
            /\ NotEarlier(now, clock)
            /\ clock' = now
            /\ pc' = IF MarketNotOpenYet(now) THEN "poll"
                     ELSE IF MarketClosed(now) THEN "stopped"
                     ELSE IF MidDay(now) THEN "poll"
                     ELSE IF fetched THEN "live_exit"
                     ELSE "poll"
       ELSE IF driver = "paper" /\ ~use_real_data
       THEN \* the candles are generated, nothing is fetched
            /\ pc' = "live_exit"
            /\ UNCHANGED clock
       ELSE \E fetched \in BOOLEAN :
            /\ pc' = IF fetched THEN "live_exit" ELSE "poll"
            /\ UNCHANGED clock
    /\ UNCHANGED <<config_vars, caller_vars, strategy_vars, capital, current_trade,
                   trades, equity_curve, results, error, runs, engine_runs,
                   driver, orders, order_ids>>

\* the quantity of the exit order: Angel One recomputes the share count,
\* Mudrex divides it by the entry price (milli-coins here)
exit_quantity ==
    LET shares == calculate_position_size(strategy_capital, strategy_risk,
                                          entry_price, stop_loss)
    IN  IF driver = "crypto" THEN (shares * 1000 * Scale) \div entry_price
        ELSE shares

cancellations ==
    (IF order_ids.sl THEN <<Order("cancel", "sl", 0, 0)>> ELSE <<>>)
    \o (IF order_ids.target THEN <<Order("cancel", "target", 0, 0)>> ELSE <<>>)

\* the exit check of a cycle
LiveExit ==
    /\ UNCHANGED supervisor_vars
    /\ UNCHANGED env_vars
    /\ pc = "live_exit"
    /\ LET window == Window(data, i)
           exits == check_exit_conditions(position, stop_loss, target, window)
       IN  IF position # None
           THEN /\ should_exit' = IF exits THEN "True" ELSE "False"
                /\ IF ~exits
                   THEN /\ pc' = "live_entry"
                        /\ UNCHANGED <<strategy_vars, orders, order_ids>>
                   ELSE IF driver \in BrokerDrivers
                   THEN \E accepted \in BOOLEAN :
                        IF accepted
                        THEN \* the broker has the exit order; the strategy is
                             \* updated by the statements that follow
                             /\ orders' = orders
                                    \o <<Order("exit", IF position = "LONG" THEN "SELL" ELSE "BUY",
                                               exit_quantity, 0)>>
                             /\ pc' = "exit_placed"
                             /\ UNCHANGED <<strategy_vars, order_ids>>
                        ELSE /\ pc' = "live_entry"
                             /\ UNCHANGED <<strategy_vars, orders, order_ids>>
                   ELSE /\ exit_trade
                        /\ pc' = "live_entry"
                        /\ UNCHANGED <<orders, order_ids>>
           ELSE /\ should_exit' = "unset"
                /\ pc' = "live_entry"
                /\ UNCHANGED <<strategy_vars, orders, order_ids>>
    /\ UNCHANGED <<config_vars, caller_vars, capital, current_trade, trades,
                   equity_curve, i, signal, results, error, runs, engine_runs,
                   driver, clock>>

\* the rest of an accepted exit: the pending stop-loss and target orders
\* are cancelled and strategy.exit_trade() is called
LiveExitUpdate ==
    /\ UNCHANGED supervisor_vars
    /\ UNCHANGED env_vars
    /\ pc = "exit_placed"
    /\ pc' = "live_entry"
    /\ orders' = orders \o cancellations
    /\ exit_trade
    /\ order_ids' = NoOrderIds
    /\ UNCHANGED <<config_vars, caller_vars, capital, current_trade, trades,
                   equity_curve, i, should_exit, signal, results, error, runs,
                   engine_runs, driver, clock>>

Infinity == 2 ^ 30

\* run_crypto_trading's quantity, in milli-coins:
\* risk_amount / risk_per_unit / current_price
crypto_quantity(cap, risk, current_price, stop) ==
    LET risk_amount == (cap * risk) \div 100
        risk_per_unit == Abs(current_price - stop)
    IN  IF risk_per_unit = 0 THEN Infinity
        ELSE (((risk_amount * 1000) \div risk_per_unit) * Scale) \div current_price

\* the entry, stop-loss and target orders of an accepted entry
entry_orders(sig, quantity, plan, sl_ok, target_ok) ==
    LET closing == IF sig = "BUY" THEN "SELL" ELSE "BUY"
    IN  <<Order("entry", sig, quantity, 0)>>
        \o (IF sl_ok THEN <<Order("sl", closing, quantity, plan.stop_loss)>> ELSE <<>>)
        \o (IF target_ok THEN <<Order("target", closing, quantity, plan.target)>> ELSE <<>>)

\* the entry check of a cycle
LiveEntry ==
    /\ UNCHANGED supervisor_vars
    /\ UNCHANGED env_vars
    /\ pc = "live_entry"
    /\ LET window == Window(data, i)
           current_price == window[Len(window)].close
           sig == generate_signal(window)
           plan == calculate_stop_loss_target(window, sig)
           shares == calculate_position_size(strategy_capital, strategy_risk,
                                             current_price, plan.stop_loss)
           coins == crypto_quantity(initial_capital, risk_per_trade,
                                    current_price, plan.stop_loss)
       IN  IF ~no_position(position)
           THEN /\ pc' = "poll"
                /\ UNCHANGED <<signal, strategy_vars, orders, order_ids>>
           ELSE /\ signal' = sig
                /\ IF sig = None
                   THEN /\ pc' = "poll"
                        /\ UNCHANGED <<strategy_vars, orders, order_ids>>
                   ELSE IF driver = "angel"
                   THEN IF shares > 0
                        THEN \E accepted, sl_ok, target_ok \in BOOLEAN :
                             IF accepted
                             THEN /\ orders' = orders \o entry_orders(sig, shares, plan, sl_ok, target_ok)
                                  /\ order_ids' = [entry |-> TRUE, sl |-> sl_ok, target |-> target_ok]
                                  /\ pc' = "entry_placed"
                                  /\ UNCHANGED strategy_vars
                             ELSE /\ order_ids' = [order_ids EXCEPT !.entry = FALSE]
                                  /\ pc' = "poll"
                                  /\ UNCHANGED <<strategy_vars, orders>>
                        ELSE /\ pc' = "poll"
                             /\ UNCHANGED <<strategy_vars, orders, order_ids>>
                   ELSE IF driver = "crypto"
                   THEN IF coins < 1 \/ sig = "SELL"
                        THEN \* below min_quantity, or a short on a spot market
                             /\ pc' = "poll"
                             /\ UNCHANGED <<strategy_vars, orders, order_ids>>
                        ELSE \E accepted, sl_ok, target_ok \in BOOLEAN :
                             IF accepted
                             THEN /\ orders' = orders \o entry_orders(sig, coins, plan, sl_ok, target_ok)
                                  /\ order_ids' = [entry |-> TRUE, sl |-> sl_ok, target |-> target_ok]
                                  /\ pc' = "entry_placed"
                                  /\ UNCHANGED strategy_vars
                             ELSE /\ order_ids' = [order_ids EXCEPT !.entry = FALSE]
                                  /\ pc' = "poll"
                                  /\ UNCHANGED <<strategy_vars, orders>>
                   ELSE /\ execute_trade(sig, window)
                        /\ pc' = "poll"
                        /\ UNCHANGED <<orders, order_ids>>
    /\ UNCHANGED <<config_vars, caller_vars, capital, current_trade, trades,
                   equity_curve, i, should_exit, results, error, runs, engine_runs,
                   driver, clock>>

\* the rest of an accepted entry: strategy.execute_trade(signal, data)
LiveEntryUpdate ==
    /\ UNCHANGED supervisor_vars
    /\ UNCHANGED env_vars
    /\ pc = "entry_placed"
    /\ pc' = "poll"
    /\ execute_trade(signal, Window(data, i))
    /\ UNCHANGED <<config_vars, caller_vars, capital, current_trade, trades,
                   equity_curve, i, should_exit, signal, results, error, runs,
                   engine_runs, live_vars>>

\* a stop that liquidates: the handler places an exit order for the open
\* position and flattens the strategy
StopAndClose ==
    /\ UNCHANGED supervisor_vars
    /\ UNCHANGED env_vars
    /\ pc = "poll"
    /\ driver \in LiveDrivers
    /\ driver = "backtest_strategy" => i + 1 >= Len(data)
    /\ pc' = "stopped"
    /\ IF position # None /\ driver \in BrokerDrivers
       THEN /\ orders' = orders
                   \o <<Order("exit", IF position = "LONG" THEN "SELL" ELSE "BUY",
                              exit_quantity, 0)>>
            /\ exit_trade
       ELSE UNCHANGED <<strategy_vars, orders>>
    /\ UNCHANGED <<config_vars, caller_vars, capital, current_trade,
                   trades, equity_curve, i, should_exit, signal, results, error,
                   runs, engine_runs, driver, order_ids, clock>>

\* the loop ends: the series is exhausted (backtest_strategy) or the
\* operator interrupts the process between two cycles
Stop ==
    /\ UNCHANGED supervisor_vars
    /\ UNCHANGED env_vars
    /\ pc = "poll"
    /\ driver \in LiveDrivers
    /\ driver = "backtest_strategy" => i + 1 >= Len(data)
    /\ pc' = "stopped"
    /\ UNCHANGED <<config_vars, caller_vars, strategy_vars, capital, current_trade,
                   trades, equity_curve, i, should_exit, signal, results, error,
                   runs, engine_runs, live_vars>>

\* the operator's stop lands inside a cycle: stop_bot sends SIGTERM, for
\* which no handler is installed, and Ctrl-C raises KeyboardInterrupt at
\* whatever statement is executing
Interrupt ==
    /\ UNCHANGED supervisor_vars
    /\ UNCHANGED env_vars
    /\ driver \in PollingDrivers
    /\ pc \in {"live_exit", "exit_placed", "live_entry", "entry_placed"}
    /\ pc' = "stopped"
    /\ UNCHANGED <<config_vars, caller_vars, strategy_vars, capital, current_trade,
                   trades, equity_curve, i, should_exit, signal, results, error,
                   runs, engine_runs, live_vars>>

DriverNext ==
    \/ RunBacktest
    \/ RunAgain
    \/ RunFresh
    \/ ExitStep
    \/ EntryStep
    \/ EquityStep
    \/ Finish
    \/ Poll
    \/ LiveExit
    \/ LiveEntry
    \/ Stop
    \/ InitialFetch
    \/ LiveExitUpdate
    \/ LiveEntryUpdate
    \/ Interrupt

DriverSpec == DriverInit /\ [][DriverNext]_vars

\* ------------------------------------------------------------------------
\* PaperTradingSimulator: an object whose caller hands it signals and frames
\* ------------------------------------------------------------------------

\* datetime.now() has a resolution of one second in the trade id; the clock
\* is followed for MaxSeconds seconds
MaxSeconds == 1

\* the caller makes at most MaxCalls calls on one simulator
MaxCalls == 3

\* the reason argument of exit_paper_trade: its default, or the caller's text
ExitReasons == {"TARGET/SL", "MANUAL"}

\* the trade_data dict of execute_paper_trade; 'PAPER_<YYYYmmddHHMMSS>' is
\* held as <<"PAPER", second>>
trade_data(sig, current_price, quantity, plan, now_s) ==
    [trade_id |-> <<"PAPER", now_s>>,
     signal_type |-> sig,
     entry_price |-> current_price,
     exit_price |-> None,
     quantity |-> quantity,
     stop_loss |-> plan.stop_loss,
     target |-> plan.target,
     pnl |-> 0,
     status |-> "OPEN",
     entry_time |-> now_s,
     exit_time |-> None,
     reason |-> None,
     mode |-> "paper"]

\* UPDATE trades SET ... WHERE trade_id = ?: the columns of trade_update
\* overwrite those of the row with that id, if there is one
update_trade(table, id, trade_update) ==
    [k \in DOMAIN table |->
        IF k = id
        THEN [f \in DOMAIN table[k] |->
                 IF f \in DOMAIN trade_update THEN trade_update[f] ELSE table[k][f]]
        ELSE table[k]]

\* the caller's frame grows by one candle
NextFrame ==
    /\ UNCHANGED supervisor_vars
    /\ driver = "simulator"
    /\ pc = "call"
    /\ i + 1 < Len(data)
    /\ i' = i + 1
    /\ UNCHANGED <<config_vars, caller_vars, strategy_vars, capital, current_trade,
                   trades, equity_curve, should_exit, signal, results, pc, error,
                   runs, engine_runs, live_vars, env_vars>>

\* a second passes on the wall clock
Tick ==
    /\ UNCHANGED supervisor_vars
    /\ driver = "simulator"
    /\ pc = "call"
    /\ wall_clock < MaxSeconds
    /\ wall_clock' = wall_clock + 1
    /\ UNCHANGED <<config_vars, caller_vars, strategy_vars, capital, current_trade,
                   trades, equity_curve, i, should_exit, signal, results, pc, error,
                   runs, engine_runs, live_vars, db, use_real_data>>

\* a test that lets a trade through whatever it costs
rejected_on_quantity_only(quantity, trade_value, available) == quantity <= 0

\* the two early `return False` of execute_paper_trade
rejected(quantity, trade_value, available) ==
    quantity <= 0 \/ trade_value > available

execute_paper_trade ==
    /\ UNCHANGED supervisor_vars
    /\ driver = "simulator"
    /\ pc = "call"
    /\ runs < MaxCalls
    /\ runs' = runs + 1
    /\ \E sig \in {"BUY", "SELL"},
          stored \in BOOLEAN :
          LET frame == Window(data, i)
              current_price == frame[Len(frame)].close
              plan == calculate_stop_loss_target(frame, sig)
              quantity == calculate_position_size(strategy_capital, risk_per_trade,
                                                  current_price, plan.stop_loss)
              trade_value == current_price * quantity
              row == trade_data(sig, current_price, quantity, plan, wall_clock)
          IN  /\ signal' = sig
              /\ IF rejected(quantity, trade_value, capital)
                 THEN UNCHANGED <<capital, db, strategy_vars, current_trade>>
                 ELSE /\ capital' = capital - trade_value
                      /\ db' = insert_trade(db, row, stored)
                      /\ position' = IF sig = "BUY" THEN "LONG" ELSE "SHORT"
                      /\ entry_price' = current_price
                      /\ stop_loss' = plan.stop_loss
                      /\ target' = plan.target
                      /\ current_trade' = row
    /\ error' = "none"
    /\ UNCHANGED <<config_vars, caller_vars, trades, equity_curve, i, should_exit,
                   results, pc, engine_runs, live_vars, wall_clock,
                   use_real_data>>

exit_paper_trade ==
    /\ UNCHANGED supervisor_vars
    /\ driver = "simulator"
    /\ pc = "call"
    /\ runs < MaxCalls
    /\ runs' = runs + 1
    /\ \E reason \in ExitReasons,
          failed \in BOOLEAN :
          IF current_trade = NoTrade
          THEN /\ error' = "none"
               /\ UNCHANGED <<capital, db, strategy_vars, current_trade>>
          ELSE LET frame == Window(data, i)
                   exit_price == frame[Len(frame)].close
                   quantity == current_trade.quantity
                   pnl == trade_pnl(current_trade.signal_type,
                                    current_trade.entry_price, exit_price, quantity)
                   trade_update == [exit_price |-> exit_price,
                                    pnl |-> pnl,
                                    status |-> "CLOSED",
                                    exit_time |-> wall_clock,
                                    reason |-> reason]
               IN  /\ capital' = capital + current_trade.entry_price * quantity + pnl
                   /\ IF failed
                      THEN \* connect, execute or commit raises sqlite3.Error,
                           \* which nothing in the method catches
                           /\ error' = "sqlite3.Error"
                           /\ UNCHANGED <<db, strategy_vars, current_trade>>
                      ELSE /\ db' = update_trade(db, current_trade.trade_id, trade_update)
                           /\ position' = None
                           /\ entry_price' = 0
                           /\ stop_loss' = 0
                           /\ target' = 0
                           /\ current_trade' = NoTrade
                           /\ error' = "none"
    /\ UNCHANGED <<config_vars, caller_vars, trades, equity_curve, i, should_exit,
                   signal, results, pc, engine_runs, live_vars, wall_clock,
                   use_real_data>>

\* the sum of the pnl column over a set of rows
RECURSIVE SumPnlOf(_)
SumPnlOf(rows) ==
    IF rows = {} THEN 0
    ELSE LET r == CHOOSE x \in rows : TRUE IN r.pnl + SumPnlOf(rows \ {r})

\* TradingDatabase.get_performance_summary: the closed trades of a mode
get_performance_summary(mode) ==
    LET closed == {db[k] : k \in {id \in DOMAIN db : db[id].mode = mode /\ db[id].status = "CLOSED"}}
        winning == {t \in closed : t.pnl > 0}
        losing == {t \in closed : t.pnl < 0}
    IN  IF closed = {}
        THEN [total_trades |-> 0, winning_trades |-> 0, losing_trades |-> 0,
              win_rate |-> 0, total_pnl |-> 0, profit_factor |-> 0]
        ELSE [total_trades |-> Cardinality(closed),
              winning_trades |-> Cardinality(winning),
              losing_trades |-> Cardinality(losing),
              win_rate |-> (Cardinality(winning) * 100) \div Cardinality(closed),
              total_pnl |-> SumPnlOf(closed),
              profit_factor |-> profit_factor(SumPnlOf(winning), Abs(SumPnlOf(losing)))]

\* the frames a caller hands to the simulator are prefixes of one of these
SimSeries == {Flat(ValidFlat, FlatLen) \o t : t \in [1..2 -> LiveMoves]}

\* the simulator after construction, or a BacktestEngine: both write to the
\* trades table of trading_data.db
\* the initial_capital of a simulator: the default, and one that buys no share
SimCapitals == {10000 * Scale, 50 * Scale}

SimInit ==
    /\ SupervisorInit
    /\ driver \in {"backtest", "simulator"}
    /\ data \in IF driver = "backtest" THEN LiveSeries ELSE SimSeries
    /\ initial_capital \in IF driver = "backtest" THEN {10000 * Scale} ELSE SimCapitals
    /\ risk_per_trade = 2
    /\ capital = initial_capital
    /\ position = None
    /\ entry_price = 0
    /\ stop_loss = 0
    /\ target = 0
    /\ current_trade = NoTrade
    /\ trades = <<>>
    /\ equity_curve = <<>>
    /\ i = IF driver = "backtest" THEN 0 ELSE WarmUp - 2
    /\ should_exit = "unset"
    /\ signal = "unset"
    /\ results = NoResults
    /\ pc = IF driver = "backtest" THEN "ready" ELSE "call"
    /\ error = "none"
    /\ runs = 0
    /\ engine_runs = 0
    /\ prev_trades = <<>>
    /\ prev_equity = <<>>
    /\ orders = <<>>
    /\ order_ids = NoOrderIds
    /\ clock = <<0, 0>>
    /\ db = EmptyDb
    /\ wall_clock = 0
    /\ use_real_data = TRUE

SimNext ==
    \/ RunBacktest
    \/ RunAgain
    \/ RunFresh
    \/ ExitStep
    \/ EntryStep
    \/ EquityStep
    \/ Finish
    \/ NextFrame
    \/ Tick
    \/ execute_paper_trade
    \/ exit_paper_trade

SimSpec == SimInit /\ [][SimNext]_vars

\* ------------------------------------------------------------------------
\* Claims
\* ------------------------------------------------------------------------

\* the bar whose window the replay is looking at
CurrentWindow == Window(data, i)
CurrentClose == data[i + 1].close

\* a position was opened on the bar being processed
OpenedOnThisBar ==
    /\ pc = "equity"
    /\ current_trade # NoTrade
    /\ current_trade.entry_time = i

\* C2: replaying the same series twice through run_backtest gives the same
\* trades and the same equity curve, on two fresh engines and on the same
\* engine, whatever state the first replay ended in; the second replay
\* completes like the first.
C2_ReplayTwiceIdentical ==
    /\ runs >= 2 => error = "none"
    /\ pc = "done" /\ runs >= 2 => trades = prev_trades /\ equity_curve = prev_equity

\* C4: for every position run_backtest opens, quantity * entryPrice is at
\* most the engine's realized capital at the entry bar.
C4_NotionalWithinAvailableCapital ==
    OpenedOnThisBar => current_trade.quantity * current_trade.entry_price <= capital

\* C5: a position opens only with positive quantity, the stop on the losing
\* side of the entry and the target on the winning side; a signal whose
\* computed risk is <= 0 opens nothing.
C5_OpensOnlyWithPositiveRisk ==
    /\ current_trade # NoTrade =>
          /\ current_trade.quantity > 0
          /\ current_trade.signal_type = "BUY" =>
                /\ current_trade.stop_loss < current_trade.entry_price
                /\ current_trade.entry_price < current_trade.target
          /\ current_trade.signal_type = "SELL" =>
                /\ current_trade.target < current_trade.entry_price
                /\ current_trade.entry_price < current_trade.stop_loss
    /\ pc = "equity" /\ signal \in {"BUY", "SELL"} =>
          LET plan == calculate_stop_loss_target(CurrentWindow, signal)
              risk == IF signal = "BUY" THEN CurrentClose - plan.stop_loss
                      ELSE plan.stop_loss - CurrentClose
          IN  risk <= 0 => position = None

\* C7: on fewer than 30 candles generate_signal returns None, and run_backtest
\* opens no position, records no trade and raises no exception.
C7_ShortSeriesNoTradeNoException ==
    Len(data) < WarmUp =>
        /\ generate_signal(data) = None
        /\ position = None
        /\ trades = <<>>
        /\ error = "none"

\* the six conditions of a BUY on window w, and their mirror for a SELL
BuyConditions(w) ==
    LET n == Len(w)
        m == calculate_macd(w)
    IN  /\ n >= WarmUp
        /\ bullish_cross(w)
        /\ check_volume_increase(w, VolumeLookback)
        /\ RsiBelow(calculate_rsi(w, RsiPeriod), RsiOverbought)
        /\ m.macd[n] > m.signal[n]
        /\ w[n].close > calculate_ema(w, FastSpan)[n]
        /\ is_near_support_resistance(w[n].close, find_support_resistance(w, SRWindow))

SellConditions(w) ==
    LET n == Len(w)
        m == calculate_macd(w)
    IN  /\ n >= WarmUp
        /\ bearish_cross(w)
        /\ check_volume_increase(w, VolumeLookback)
        /\ RsiAbove(calculate_rsi(w, RsiPeriod), RsiOversold)
        /\ m.macd[n] < m.signal[n]
        /\ w[n].close < calculate_ema(w, FastSpan)[n]
        /\ is_near_support_resistance(w[n].close, find_support_resistance(w, SRWindow))

\* C8: generate_signal returns BUY only when the bullish cross, the volume
\* confirmation, RSI < 70, MACD above its signal line, close above the fast
\* EMA and the key-level proximity all hold on the window; SELL only under
\* the mirror conditions; None otherwise; the two are never both satisfied.
C8_SignalOnlyUnderAllSixConditions ==
    pc = "equity" /\ signal # "unset" =>
        /\ signal \in {"BUY", "SELL", None}
        /\ signal = "BUY" <=> BuyConditions(CurrentWindow)
        /\ signal = "SELL" <=> SellConditions(CurrentWindow)
        /\ ~(BuyConditions(CurrentWindow) /\ SellConditions(CurrentWindow))

C8_Witness == pc = "equity" /\ signal = "BUY" /\ BuyConditions(CurrentWindow)

\* C10: within a replay a Trade is appended exactly on the step that takes
\* the position from LONG/SHORT to flat; its direction, entry price, stop,
\* target and quantity are those fixed at the open, its exit price is the
\* close of the exit bar; nothing is appended for a position still open when
\* the series ends.
C10_TradePerExit ==
    [][pc # "done" =>
        /\ (position # None /\ position' = None) <=> Len(trades') = Len(trades) + 1
        /\ Len(trades') # Len(trades) + 1 => trades' = trades
        /\ Len(trades') = Len(trades) + 1 =>
              LET t == trades'[Len(trades')]
              IN  /\ SubSeq(trades', 1, Len(trades)) = trades
                  /\ t.signal_type = (IF position = "LONG" THEN "BUY" ELSE "SELL")
                  /\ t.entry_price = entry_price
                  /\ t.stop_loss = stop_loss
                  /\ t.target = target
                  /\ t.quantity = current_trade.quantity
                  /\ t.entry_time = current_trade.entry_time
                  /\ t.exit_price = CurrentClose
                  /\ t.exit_time = i
    ]_vars

C10_Witness ==
    /\ pc = "entry"
    /\ should_exit = "True"
    /\ position = None
    /\ Len(trades) = 1
    /\ trades[1].exit_price = CurrentClose

\* ------------------------------------------------------------------------
\* The strategy's predicates on monotone series
\* ------------------------------------------------------------------------
MonoLen == WarmUp + MaxTail

\* tick increments between consecutive closes, repeated with period 3
StepSet == {1, 40, 1500}
StepPatterns == [1..3 -> StepSet]

RECURSIVE MonoCloses(_, _, _, _)
MonoCloses(start, dir, pattern, n) ==
    IF n = 1 THEN <<start>>
    ELSE LET before == MonoCloses(start, dir, pattern, n - 1)
         IN  Append(before, before[n - 1] + dir * pattern[(n % 3) + 1])

MonoSeries(dir, pattern) ==
    LET cs == MonoCloses(100 * Scale, dir, pattern, MonoLen)
    IN  [k \in 1..MonoLen |->
            [close |-> cs[k], high |-> cs[k], low |-> cs[k],
             volume |-> IF k >= WarmUp THEN 200 ELSE 100]]

StrictlyIncreasing(d) == \A k \in 1..(Len(d) - 1) : d[k].close < d[k + 1].close
StrictlyDecreasing(d) == \A k \in 1..(Len(d) - 1) : d[k].close > d[k + 1].close

\* the position the strategy holds while the series is looked at:
\* <<position, stop_loss, target>>
MonoPositions ==
    {<<None, 0, 0>>,
     <<"LONG", 50 * Scale, 200 * Scale>>, <<"LONG", 50 * Scale, 101 * Scale>>,
     <<"SHORT", 200 * Scale, 50 * Scale>>, <<"SHORT", 200 * Scale, 99 * Scale>>}

MonoInit ==
    /\ SupervisorInit
    /\ \E dir \in {-1, 1}, pattern \in StepPatterns : data = MonoSeries(dir, pattern)
    /\ \E p \in MonoPositions : position = p[1] /\ stop_loss = p[2] /\ target = p[3]
    /\ initial_capital = 10000 * Scale
    /\ risk_per_trade = 2
    /\ capital = initial_capital
    /\ entry_price = IF position = None THEN 0 ELSE 100 * Scale
    /\ current_trade = NoTrade
    /\ trades = <<>>
    /\ equity_curve = <<>>
    /\ i = WarmUp - 1
    /\ should_exit = "unset"
    /\ signal = "unset"
    /\ results = NoResults
    /\ pc = "mono"
    /\ error = "none"
    /\ runs = 0
    /\ engine_runs = 0
    /\ prev_trades = <<>>
    /\ prev_equity = <<>>
    /\ driver = "none"
    /\ orders = <<>>
    /\ order_ids = NoOrderIds
    /\ clock = <<0, 0>>
    /\ db = EmptyDb
    /\ wall_clock = 0
    /\ use_real_data = TRUE

\* generate_signal and check_exit_conditions applied to the window ending
\* at bar i
MonoStep ==
    /\ UNCHANGED supervisor_vars
    /\ UNCHANGED env_vars
    /\ UNCHANGED live_vars
    /\ pc = "mono"
    /\ i < Len(data)
    /\ signal' = generate_signal(Window(data, i))
    /\ should_exit' = IF check_exit_conditions(position, stop_loss, target, Window(data, i))
                      THEN "True" ELSE "False"
    /\ i' = i + 1
    /\ UNCHANGED <<config_vars, caller_vars, strategy_vars, capital, current_trade,
                   trades, equity_curve, results, pc, error, runs, engine_runs>>

MonoNext == MonoStep

MonoSpec == MonoInit /\ [][MonoNext]_vars

\* the window the last MonoStep looked at
MonoWindow == Window(data, i - 1)

\* C9: on a strictly increasing series the bearish cross is false on every
\* bar from the warm-up on, generate_signal never returns SELL and a LONG is
\* closed only by its stop or target, never by the crossover; on a strictly
\* decreasing series the same holds for the bullish cross, BUY and a SHORT.
C9_NoCounterCrossOnMonotoneSeries ==
    signal # "unset" =>
        /\ StrictlyIncreasing(data) =>
              /\ ~bearish_cross(MonoWindow)
              /\ signal # "SELL"
              /\ position = "LONG" /\ should_exit = "True" =>
                    \/ MonoWindow[i].close <= stop_loss
                    \/ MonoWindow[i].close >= target
        /\ StrictlyDecreasing(data) =>
              /\ ~bullish_cross(MonoWindow)
              /\ signal # "BUY"
              /\ position = "SHORT" /\ should_exit = "True" =>
                    \/ MonoWindow[i].close >= stop_loss
                    \/ MonoWindow[i].close <= target

C9_Witness ==
    /\ pc = "mono"
    /\ StrictlyIncreasing(data)
    /\ Len(data) > WarmUp
    /\ i = Len(data)
    /\ position = "LONG"
    /\ should_exit = "False"
    /\ signal = None

\* ------------------------------------------------------------------------
\* Claims about the drivers
\* ------------------------------------------------------------------------
ExitPcs == {"exit", "live_exit", "exit_placed"}
EntryPcs == {"entry", "live_entry"}

\* C1: in every driver loop the entry check of a bar or cycle follows the
\* exit check of the same bar, generate_signal is consulted only while the
\* strategy is flat, the position is one of None/LONG/SHORT, and a position
\* opens only from flat, in an entry check: an open position is never
\* replaced by another one.
C1_ExitBeforeEntryOnePosition ==
    [][/\ position' \in {None, "LONG", "SHORT"}
       /\ pc' \in EntryPcs => pc \in ExitPcs /\ i' = i
       /\ pc \in EntryPcs /\ position # None => signal' = "unset" /\ UNCHANGED strategy_vars
       /\ pc \notin EntryPcs => signal' \in {signal, "unset"}
       /\ position # None /\ position' # None => UNCHANGED strategy_vars
       /\ position = None /\ position' # None =>
              pc \in EntryPcs \cup {"entry_placed"} /\ signal' \in {"BUY", "SELL"}
    ]_vars

C1_Witness ==
    /\ driver = "angel"
    /\ pc = "poll"
    /\ position = "SHORT"
    /\ should_exit = "False"
    /\ signal = "unset"

\* the entry order of the position a broker driver holds
LastEntryOrder ==
    LET ks == {k \in 1..Len(orders) : orders[k].kind = "entry"}
        last == CHOOSE k \in ks : \A j \in ks : j <= k
    IN  orders[last]

\* quantities are shares, or thousandths of a coin for the crypto driver
QuantityUnit == IF driver = "crypto" THEN 1000 ELSE 1

\* C3: calculate_position_size returns q >= 0 with
\* q * |entry - stop| <= capital * risk_per_trade, and the position a driver
\* opens loses at most capital * risk_per_trade when its stop is hit at the
\* stop price.
C3_RiskWithinBudget ==
    /\ pc \in {"equity", "poll"} /\ signal \in {"BUY", "SELL"} =>
          LET w == Window(data, i)
              price == w[Len(w)].close
              plan == calculate_stop_loss_target(w, signal)
              q == calculate_position_size(strategy_capital, risk_per_trade,
                                           price, plan.stop_loss)
          IN  /\ q >= 0
              /\ q * Abs(price - plan.stop_loss) * 100 <= strategy_capital * risk_per_trade
    /\ driver \in BrokerDrivers /\ position # None =>
          LastEntryOrder.quantity * Abs(entry_price - stop_loss) * 100
              <= strategy_capital * risk_per_trade * QuantityUnit

\* C6: check_exit_conditions is True for a LONG iff close <= stop or
\* close >= target or the bearish cross, for a SHORT iff close >= stop or
\* close <= target or the bullish cross, False for no position; and the
\* replay moves the position to flat on a bar exactly when it is True.
C6_ExitIffConditionsFlatIffTrue ==
    [][pc = "exit" =>
          LET w == CurrentWindow
              close == CurrentClose
              returned == check_exit_conditions(position, stop_loss, target, w)
          IN  /\ position = "LONG" =>
                    (returned <=> close <= stop_loss \/ close >= target \/ bearish_cross(w))
              /\ position = "SHORT" =>
                    (returned <=> close >= stop_loss \/ close <= target \/ bullish_cross(w))
              /\ ~check_exit_conditions(None, stop_loss, target, w)
              /\ position # None => (should_exit' = "True" <=> returned)
              /\ (position # None /\ position' = None) <=> returned
    ]_vars

\* ------------------------------------------------------------------------
\* Claims about closed trades and the trades table
\* ------------------------------------------------------------------------

\* the rows of the trades table that are closed
ClosedRows == {db[k] : k \in {id \in DOMAIN db : db[id].status = "CLOSED"}}

\* the closed trades of the run: run_backtest's list and the closed rows
ClosedTrades == {trades[n] : n \in 1..Len(trades)} \cup ClosedRows

\* pnl is the price movement in the trade's direction times the quantity
PnlByDirection(t) ==
    /\ t.signal_type = "BUY" => t.pnl = (t.exit_price - t.entry_price) * t.quantity
    /\ t.signal_type = "SELL" => t.pnl = (t.entry_price - t.exit_price) * t.quantity

\* pnl is positive exactly when the price moved in the trade's direction
PnlSignFollows(t) ==
    /\ t.signal_type = "BUY" => /\ t.exit_price > t.entry_price => t.pnl > 0
                                /\ t.exit_price < t.entry_price => t.pnl < 0
    /\ t.signal_type = "SELL" => /\ t.exit_price < t.entry_price => t.pnl > 0
                                 /\ t.exit_price > t.entry_price => t.pnl < 0

\* the Trade a successful exit_paper_trade closes: the open trade with the
\* columns the step has just written to its row
ClosedByStep ==
    [signal_type |-> current_trade.signal_type,
     entry_price |-> current_trade.entry_price,
     quantity |-> current_trade.quantity,
     exit_price |-> db'[current_trade.trade_id].exit_price,
     pnl |-> db'[current_trade.trade_id].pnl]

\* C11: every trade run_backtest appends to its list, and every trade an
\* exit_paper_trade call closes, has pnl = (exit - entry) * quantity when
\* LONG and (entry - exit) * quantity when SHORT, the exit price being the
\* close of the current candle; the pnl is positive when the price moved
\* the trade's way and negative when it moved against it, and it is the
\* amount the capital is credited with.
C11_PnlByDirection ==
    [][/\ \A n \in 1..Len(trades') : PnlByDirection(trades'[n]) /\ PnlSignFollows(trades'[n])
       /\ Len(trades') > Len(trades) =>
              /\ trades'[Len(trades')].exit_price = CurrentClose
              /\ capital' = capital + trades'[Len(trades')].pnl
       /\ (driver = "simulator" /\ current_trade # NoTrade /\ current_trade' = NoTrade) =>
              /\ current_trade.trade_id \in DOMAIN db =>
                     /\ PnlByDirection(ClosedByStep)
                     /\ PnlSignFollows(ClosedByStep)
                     /\ ClosedByStep.exit_price = CurrentClose
                     /\ db'[current_trade.trade_id].status = "CLOSED"
              /\ capital' - capital - current_trade.entry_price * current_trade.quantity
                     = IF current_trade.signal_type = "BUY"
                       THEN (CurrentClose - current_trade.entry_price) * current_trade.quantity
                       ELSE (current_trade.entry_price - CurrentClose) * current_trade.quantity
    ]_vars

\* the simulator has closed a SHORT at a profit and the table shows it
C11_Witness ==
    /\ driver = "simulator"
    /\ current_trade = NoTrade
    /\ \E t \in ClosedRows : t.signal_type = "SELL" /\ t.exit_price < t.entry_price /\ t.pnl > 0

\* the bars a finished replay of the series has processed
ProcessedBars == IF Len(data) > WarmUp THEN Len(data) - WarmUp ELSE 0

\* C12 as stated: a replay that processed k bars leaves exactly k points,
\* and inside a replay the curve changes only by appending a point.
C12_OnePointPerProcessedBar ==
    [][/\ pc' = "done" => Len(equity_curve') = ProcessedBars
       /\ (equity_curve' # equity_curve /\ pc \notin {"ready", "done"}) =>
              /\ Len(equity_curve') = Len(equity_curve) + 1
              /\ SubSeq(equity_curve', 1, Len(equity_curve)) = equity_curve
    ]_vars

\* C12, amended: run_backtest starts the curve with the initial capital and
\* then records exactly one point per processed bar: at bar i the curve
\* holds 1 + (i - 30) points, after a replay that processed k bars it
\* holds k + 1, inside a replay a step changes the curve only by appending
\* one point at the end of a bar, and the only other change is the reset
\* to the single starting point when a replay begins.
C12_OnePointPerBarAfterSeed ==
    [][/\ pc' \in {"exit", "entry", "equity"} => Len(equity_curve') = 1 + (i' - WarmUp)
       /\ (pc' = "raised" /\ error' # "IndexError") => Len(equity_curve') = 1 + (i' - WarmUp)
       /\ pc' \in {"results", "done"} => Len(equity_curve') = 1 + ProcessedBars
       /\ equity_curve' # equity_curve =>
              \/ /\ pc = "equity"
                 /\ Len(equity_curve') = Len(equity_curve) + 1
                 /\ SubSeq(equity_curve', 1, Len(equity_curve)) = equity_curve
                 /\ i' = i + 1
              \/ /\ pc \in {"ready", "done"}
                 /\ equity_curve' = <<initial_capital>>
    ]_vars

\* a replay that traded has finished: k + 1 points for k processed bars
C12_Witness ==
    /\ pc = "done"
    /\ ProcessedBars > 1
    /\ Len(trades) > 0
    /\ Len(equity_curve) = ProcessedBars + 1
    /\ equity_curve[1] = initial_capital

\* C13: every closed trade, in run_backtest's list or in the trades table,
\* carries an exit reason: stop-hit when a LONG closed at or below its stop
\* (a SHORT at or above), target-hit when a LONG closed at or above its
\* target (a SHORT at or below).
C13_ClosedTradeCarriesExitReason ==
    \A t \in ClosedTrades :
        /\ "reason" \in DOMAIN t
        /\ t.signal_type = "BUY" =>
               /\ t.exit_price <= t.stop_loss => t.reason = "stop-hit"
               /\ t.exit_price >= t.target => t.reason = "target-hit"
        /\ t.signal_type = "SELL" =>
               /\ t.exit_price >= t.stop_loss => t.reason = "stop-hit"
               /\ t.exit_price <= t.target => t.reason = "target-hit"

\* the modes a summary is asked for
Modes == {"backtest", "paper", "live"}

\* C14: the aggregators always return a result: calculate_results returns
\* a report after every replay, with win rate, profit factor and Sharpe
\* ratio 0 when no trade was closed, profit factor 0 when no trade lost
\* and Sharpe ratio 0 when the returns do not vary; and
\* get_performance_summary has win rate and profit factor 0 without closed
\* trades and profit factor 0 without losing ones.
C14_AggregatorNeverMissing ==
    /\ pc = "done" =>
           /\ Len(results) = 1
           /\ Len(trades) = 0 => /\ results[1].win_rate = 0
                                 /\ results[1].profit_factor = 0
                                 /\ results[1].sharpe_ratio = 0
           /\ Len(Losing(trades)) = 0 => results[1].profit_factor = 0
           /\ Std(Returns(equity_curve)) <= 0 => results[1].sharpe_ratio = 0
    /\ \A mode \in Modes :
           LET summary == get_performance_summary(mode)
           IN  /\ summary.total_trades = 0 => summary.win_rate = 0 /\ summary.profit_factor = 0
               /\ summary.losing_trades = 0 => summary.profit_factor = 0

\* C15: in the polling loops a cycle that does not get to the checks (its
\* fetch failed) leaves the strategy, the orders and the capital as they
\* were, and exit and entry checks run only on candles that the
\* market-data collaborator returned.
C15_FailedFetchNeverTrades ==
    [][/\ (driver \in PollingDrivers /\ pc = "poll" /\ pc' = "poll") =>
              UNCHANGED <<strategy_vars, orders, order_ids, capital, trades>>
       /\ (driver \in PollingDrivers /\ pc' \in {"live_exit", "live_entry"}) =>
              use_real_data' = TRUE
    ]_vars

C17_StopOnlyAtCycleBoundary ==
    [][(driver \in PollingDrivers /\ pc' = "stopped" /\ pc # "stopped") =>
          /\ pc = "poll"
          /\ pc \notin {"entry_placed", "exit_placed"}
    ]_vars

\* the broker holds an accepted entry order that no accepted exit order
\* has followed
HoldsEntry ==
    \E k \in 1..Len(orders) :
        /\ orders[k].kind = "entry"
        /\ \A j \in (k + 1)..Len(orders) : orders[j].kind # "exit"

\* C18: in the broker loops, outside the statements between an accepted
\* order and the strategy update, the strategy holds a position exactly
\* when the broker holds an accepted entry order not yet followed by an
\* accepted exit order; the strategy is never flat over an accepted entry.
C18_OrdersMirrorPosition ==
    (driver \in BrokerDrivers /\ pc \in {"poll", "live_exit", "live_entry"}) =>
        (position # None <=> HoldsEntry)

\* C19: every trade run_backtest or execute_paper_trade records gets an
\* identifier that no stored row has, and storing it leaves every stored
\* row in place.
C19_TradeIdsUnique ==
    [][/\ Len(trades') > Len(trades) =>
              /\ trades'[Len(trades')].trade_id \notin DOMAIN db
              /\ \A id \in DOMAIN db : id \in DOMAIN db' /\ db'[id] = db[id]
       /\ (driver = "simulator" /\ runs' = runs + 1 /\ capital' < capital) =>
              /\ current_trade'.trade_id \notin DOMAIN db
              /\ \A id \in DOMAIN db : id \in DOMAIN db' /\ db'[id] = db[id]
    ]_vars

\* C20: no storage failure reaches the caller, and an exit leaves the state
\* that a stored exit leaves: the step that credits the capital for a
\* closed trade also flattens the position and clears the current trade,
\* so the credit cannot be repeated.
C20_StorageFailureLeavesStateAsStored ==
    [][/\ error' # "sqlite3.Error"
       /\ (driver = "simulator" /\ capital' > capital) =>
              /\ position' = None
              /\ current_trade' = NoTrade
       /\ Len(trades') > Len(trades) =>
              /\ position' = None
              /\ current_trade' = NoTrade
              /\ capital' = capital + trades'[Len(trades')].pnl
    ]_vars

\* ------------------------------------------------------------------------
\* The end of a loop
\* ------------------------------------------------------------------------

\* the step is the operator's cancellation: it ends the loop and is no part
\* of a cycle (no clock read, no fetch, no check, no order)
CancellationStep ==
    /\ pc' = "stopped"
    /\ UNCHANGED <<i, clock, should_exit, signal, strategy_vars, orders, order_ids>>

\* C21: a polling loop (paper, Angel One, Mudrex) stops only on explicit
\* cancellation, never on its own and never because of a failure inside a
\* cycle; the replay loop leaves a bar only for the next one, in ascending
\* order from index 30, and stops exactly when the last bar is processed
C21_LoopStopsOnlyOnCancel ==
    [][/\ (driver \in PollingDrivers /\ pc # "stopped" /\ pc' = "stopped")
            => CancellationStep
       /\ (driver = "backtest" /\ pc \in {"exit", "entry", "equity"})
            => /\ pc' # "raised"
               /\ i' \in {i, i + 1}
               /\ (i' = i + 1) <=> (pc = "equity")
               /\ (pc' = "results") <=> (pc = "equity" /\ i + 1 = Len(data))
       /\ (driver = "backtest" /\ pc \in {"ready", "done"} /\ pc' \in {"exit", "results"})
            => /\ i' = WarmUp
               /\ (pc' = "results") <=> (Len(data) <= WarmUp)]_vars

\* ------------------------------------------------------------------------
\* The risk budget of a mode
\* ------------------------------------------------------------------------

\* the share count calculate_position_size gives for the configured risk
configured_quantity(window, sig) ==
    calculate_position_size(initial_capital, risk_per_trade,
                            window[Len(window)].close,
                            calculate_stop_loss_target(window, sig).stop_loss)

\* C22: in every mode positions are sized from the budget capital times the
\* configured risk_per_trade: the trade a replay opens and the entry order
\* the Angel One loop sends carry the share count calculate_position_size
\* gives for that budget, and the Mudrex order the coin quantity for it
C22_BudgetFromConfiguredRisk ==
    [][/\ (driver = "backtest" /\ pc = "entry" /\ position' # None /\ position = None)
            => current_trade'.quantity = configured_quantity(Window(data, i), signal')
       /\ (driver \in BrokerDrivers /\ pc = "live_entry" /\ pc' = "entry_placed")
            => LET w == Window(data, i)
                   sent == orders'[Len(orders) + 1]
               IN  sent.quantity =
                       IF driver = "crypto"
                       THEN crypto_quantity(initial_capital, risk_per_trade,
                                            w[Len(w)].close,
                                            calculate_stop_loss_target(w, signal').stop_loss)
                       ELSE configured_quantity(w, signal')]_vars

\* ------------------------------------------------------------------------
\* One open paper trade
\* ------------------------------------------------------------------------

\* the rows of the trades table with status OPEN
OpenRows(table) == {id \in DOMAIN table : table[id].status = "OPEN"}

\* a call on the simulator, made after calls that all returned, that is no
\* exit of the open trade (an exit credits the capital)
CallWhileOpen ==
    /\ driver = "simulator"
    /\ runs' = runs + 1
    /\ error = "none"
    /\ current_trade # NoTrade
    /\ capital' <= capital

\* C23: at most one paper trade is OPEN at any time: the trades table never
\* holds two OPEN rows, and an execute_paper_trade call made while a trade
\* is open opens no second trade, deducts no capital and keeps the open
\* trade as the simulator's current trade
C23_AtMostOneOpenPaperTrade ==
    [][/\ (driver = "simulator") => Cardinality(OpenRows(db')) <= 1
       /\ CallWhileOpen =>
            /\ capital' = capital
            /\ current_trade' = current_trade
            /\ db' = db
            /\ UNCHANGED strategy_vars]_vars

\* ------------------------------------------------------------------------
\* The equity points of a replay
\* ------------------------------------------------------------------------

\* a trade was closed on bar i of this replay
ClosedOnThisBar ==
    /\ Len(trades) > 0
    /\ trades[Len(trades)].exit_time = i

\* C24: the equity point run_backtest records for a bar is the realized
\* capital when FLAT and the realized capital plus (close - entry) * quantity
\* for a LONG, (entry - close) * quantity for a SHORT; on the bar that closes
\* a position and opens none it is the capital before that bar plus the
\* trade's pnl, and on an entry bar it is the realized capital
C24_EquityMarkedToMarket ==
    [][(driver = "backtest" /\ pc = "equity" /\ pc' # "raised") =>
          LET close == data[i + 1].close
              equity == equity_curve'[Len(equity_curve')]
          IN  /\ Len(equity_curve') = Len(equity_curve) + 1
              /\ position = None => equity = capital
              /\ position = "LONG" =>
                    equity = capital + (close - entry_price) * current_trade.quantity
              /\ position = "SHORT" =>
                    equity = capital + (entry_price - close) * current_trade.quantity
              /\ (ClosedOnThisBar /\ position = None) =>
                    equity = initial_capital + SumPnl(SubSeq(trades, 1, Len(trades) - 1))
                             + trades[Len(trades)].pnl
              /\ OpenedOnThisBar => equity = capital]_vars

\* a SHORT held over a bar that moved the price has been marked to market
C24_Witness ==
    /\ driver = "backtest"
    /\ pc \in {"exit", "results"}
    /\ position = "SHORT"
    /\ Len(equity_curve) > 2
    /\ data[i].close # entry_price
    /\ equity_curve[Len(equity_curve)]
           = capital + (entry_price - data[i].close) * current_trade.quantity

\* ------------------------------------------------------------------------
\* BotRunner: the supervisor that starts and stops the bot process
\*
\* Each instance runs its methods on its own; the instances share bot.pid,
\* bot_status.txt and the operating system's processes.  A start request
\* is four steps: the is_running check, Popen, the write of bot.pid and
\* update_status.
\* ------------------------------------------------------------------------
MaxSpawns == 3

StartModes == {"paper", "live"}

\* BotRunner.is_running: bot.pid exists and names a process that is alive
is_running == pid_file # 0 /\ pid_file \in processes

\* what is_running leaves of bot.pid: a stale file is removed
pid_file_after_check == IF is_running THEN pid_file ELSE 0

\* the supervisor is modelled without a trading loop
BotInit ==
    /\ SupervisorInit
    /\ driver = "supervisor"
    /\ data = <<>>
    /\ initial_capital = 10000 * Scale
    /\ risk_per_trade = 2
    /\ capital = initial_capital
    /\ position = None
    /\ entry_price = 0
    /\ stop_loss = 0
    /\ target = 0
    /\ current_trade = NoTrade
    /\ trades = <<>>
    /\ equity_curve = <<>>
    /\ i = 0
    /\ should_exit = "unset"
    /\ signal = "unset"
    /\ results = NoResults
    /\ pc = "supervisor"
    /\ error = "none"
    /\ runs = 0
    /\ engine_runs = 0
    /\ prev_trades = <<>>
    /\ prev_equity = <<>>
    /\ orders = <<>>
    /\ order_ids = NoOrderIds
    /\ clock = <<0, 0>>
    /\ db = EmptyDb
    /\ wall_clock = 0
    /\ use_real_data = TRUE

\* start_paper_trading / start_live_trading up to the guard:
\* `if self.is_running(): return False, "Bot is already running"`
start_request(r) ==
    /\ driver = "supervisor"
    /\ runner[r].pc = "idle"
    /\ spawned < MaxSpawns
    /\ \E mode \in StartModes :
          runner' = [runner EXCEPT ![r] =
                        IF is_running
                        THEN [pc |-> "idle", mode |-> mode, pid |-> 0, returned |-> "False"]
                        ELSE [pc |-> "spawn", mode |-> mode, pid |-> 0, returned |-> None]]
    /\ pid_file' = pid_file_after_check
    /\ UNCHANGED <<trading_vars, status_file, processes, spawned>>

\* process = subprocess.Popen(cmd, ...): an exception is caught and the
\* request returns False
Popen(r) ==
    /\ driver = "supervisor"
    /\ runner[r].pc = "spawn"
    /\ \E started \in BOOLEAN :
          IF started
          THEN /\ spawned' = spawned + 1
               /\ processes' = processes \cup {spawned + 1}
               /\ runner' = [runner EXCEPT ![r].pc = "save_pid", ![r].pid = spawned + 1]
          ELSE /\ runner' = [runner EXCEPT ![r].pc = "idle", ![r].returned = "False"]
               /\ UNCHANGED <<processes, spawned>>
    /\ UNCHANGED <<trading_vars, pid_file, status_file>>

\* with open(self.pid_file, 'w') as f: f.write(str(process.pid))
save_pid(r) ==
    /\ driver = "supervisor"
    /\ runner[r].pc = "save_pid"
    /\ pid_file' = runner[r].pid
    /\ runner' = [runner EXCEPT ![r].pc = "update_status"]
    /\ UNCHANGED <<trading_vars, status_file, processes, spawned>>

\* self.update_status('running', mode) and the return of the start request
update_status(r) ==
    /\ driver = "supervisor"
    /\ runner[r].pc = "update_status"
    /\ status_file' = [status |-> "running", mode |-> runner[r].mode]
    /\ runner' = [runner EXCEPT ![r].pc = "idle", ![r].returned = "True"]
    /\ UNCHANGED <<trading_vars, pid_file, processes, spawned>>

\* BotRunner.stop_bot: SIGTERM, then SIGKILL, to the pid in bot.pid
stop_bot(r) ==
    /\ driver = "supervisor"
    /\ runner[r].pc = "idle"
    /\ IF is_running
       THEN /\ processes' = processes \ {pid_file}
            /\ pid_file' = 0
            /\ status_file' = [status |-> "stopped", mode |-> ""]
            /\ runner' = [runner EXCEPT ![r].returned = "True"]
       ELSE /\ pid_file' = pid_file_after_check
            /\ runner' = [runner EXCEPT ![r].returned = "False"]
            /\ UNCHANGED <<processes, status_file>>
    /\ UNCHANGED <<trading_vars, spawned>>

\* a bot process ends by itself (market close, the 1000th paper iteration,
\* an exception in the live loop)
BotExits ==
    /\ driver = "supervisor"
    /\ \E p \in processes : processes' = processes \ {p}
    /\ UNCHANGED <<trading_vars, pid_file, status_file, runner, spawned>>

BotNext ==
    \/ \E r \in Runners : start_request(r)
    \/ \E r \in Runners : Popen(r)
    \/ \E r \in Runners : save_pid(r)
    \/ \E r \in Runners : update_status(r)
    \/ \E r \in Runners : stop_bot(r)
    \/ BotExits

BotSpec == BotInit /\ [][BotNext]_vars

\* C25: at most one bot process is running at any time, under every
\* interleaving of the start requests of two BotRunner instances: a process
\* is spawned only when no bot is running, and a start request made while a
\* bot is running returns failure and leaves bot.pid and bot_status.txt
\* unchanged
C25_AtMostOneBotProcess ==
    [][/\ Cardinality(processes') <= 1
       /\ (processes' \ processes # {}) => processes = {}
       /\ \A r \in Runners :
             (/\ runner[r].pc = "idle"
              /\ runner'[r] # runner[r]
              /\ is_running
              /\ processes' = processes)
             => /\ runner'[r].pc = "idle"
                /\ runner'[r].returned = "False"
                /\ pid_file' = pid_file
                /\ status_file' = status_file]_vars

\* ------------------------------------------------------------------------
\* RSI with no loss in the window
\* ------------------------------------------------------------------------

\* no close of the trailing `period` bars is below the close before it: the
\* average loss over the window is 0
ZeroLoss(w, period) ==
    \A k \in (Len(w) - period + 1)..Len(w) : k > 1 => w[k].close >= w[k - 1].close

\* C26: calculate_rsi yields exactly 100 whenever the average loss over the
\* trailing 14 bars is 0, on every window of at least 15 bars, with a
\* positive average gain or none (no price change); it never yields an
\* undefined value, for which rsi < 70 and rsi > 30 are both false
C26_RsiHundredOnZeroLoss ==
    (/\ driver = "backtest"
     /\ pc \in {"exit", "entry", "equity"}
     /\ Len(CurrentWindow) >= RsiPeriod + 1
     /\ ZeroLoss(CurrentWindow, RsiPeriod))
    => LET rsi == calculate_rsi(CurrentWindow, RsiPeriod)
       IN  /\ ~rsi.nan
           /\ rsi.num = 100 * rsi.den
           /\ RsiBelow(rsi, RsiOverbought) \/ RsiAbove(rsi, RsiOversold)

\* ------------------------------------------------------------------------
\* The capital of a replay
\* ------------------------------------------------------------------------

\* C27: throughout run_backtest the engine's capital is initial_capital plus
\* the pnl of the trades recorded so far in this replay; it changes only on
\* a bar that closes a position (and at the reset that starts a replay), and
\* the final_capital calculate_results reports is initial_capital + total_pnl
C27_CapitalIsInitialPlusPnl ==
    [][driver = "backtest" =>
          /\ capital' = initial_capital + SumPnl(trades')
          /\ (capital' # capital) =>
                \/ pc = "exit" /\ position # None /\ position' = None
                      /\ Len(trades') = Len(trades) + 1
                \/ pc \in {"ready", "done"}
          /\ (results' # NoResults) =>
                results'[1].final_capital = initial_capital + results'[1].total_pnl]_vars

\* a second replay on the same engine has ended with a profit or a loss
C27_Witness ==
    /\ driver = "backtest"
    /\ pc = "done"
    /\ engine_runs = 2
    /\ Len(prev_trades) > 0
    /\ results # NoResults
    /\ capital # initial_capital
    /\ results[1].final_capital = capital

\* ------------------------------------------------------------------------
\* The quantity of an exit order
\* ------------------------------------------------------------------------

\* C28: in each live driver (Angel One, Mudrex) the exit order sent for a
\* position has the quantity of the entry order that opened the position
C28_ExitQuantityIsEntryQuantity ==
    [][(driver \in BrokerDrivers /\ pc = "live_exit" /\ pc' = "exit_placed")
          => orders'[Len(orders')].quantity = LastEntryOrder.quantity]_vars

\* ------------------------------------------------------------------------
\* Market hours of the Angel One loop
\* ------------------------------------------------------------------------

\* minutes since midnight
MinuteOfDay(t) == t[1] * 60 + t[2]

\* 9:15 to 15:30, outside the mid-day window 11:00 to 14:00
TradingHours(t) ==
    /\ MinuteOfDay(t) >= 9 * 60 + 15
    /\ MinuteOfDay(t) < 15 * 60 + 30
    /\ ~(MinuteOfDay(t) >= 11 * 60 /\ MinuteOfDay(t) < 14 * 60)

\* C29: run_live_trading_angel_one fetches, checks and places orders only on
\* a cycle that starts within 9:15 to 15:30 and outside 11:00 to 14:00, and
\* a cycle that starts at or after 15:30 stops the loop without trading
C29_TradesOnlyInMarketHours ==
    [][(driver = "angel" /\ pc = "poll" /\ i' # i) =>
          /\ (pc' = "live_exit") => TradingHours(clock')
          /\ (MinuteOfDay(clock') >= 15 * 60 + 30) => pc' = "stopped"
          /\ UNCHANGED <<strategy_vars, orders, order_ids>>]_vars

\* ------------------------------------------------------------------------
\* Rejected paper-trading operations
\* ------------------------------------------------------------------------

\* execute_paper_trade turns this signal down on the current frame: the
\* quantity is not positive or the trade costs more than the capital at hand
TurnedDown(sig) ==
    LET frame == Window(data, i)
        price == frame[Len(frame)].close
        quantity == calculate_position_size(initial_capital, risk_per_trade, price,
                                            calculate_stop_loss_target(frame, sig).stop_loss)
    IN  quantity <= 0 \/ price * quantity > capital

\* C30: a rejected paper-trading operation changes nothing: an
\* execute_paper_trade that is turned down (quantity <= 0, or trade value
\* above the available capital) and an exit_paper_trade with no open trade
\* leave the capital, current_trade, the strategy's position, entry, stop
\* and target and the trades table as they were
C30_RejectedCallChangesNothing ==
    [][(driver = "simulator" /\ runs' = runs + 1) =>
          /\ (/\ signal' \in {"BUY", "SELL"}
              /\ TurnedDown(signal')
              /\ capital' <= capital
              /\ error' = "none")
             => UNCHANGED <<capital, current_trade, strategy_vars, db>>
          /\ (current_trade = NoTrade /\ current_trade' = NoTrade)
             => UNCHANGED <<capital, strategy_vars, db>>]_vars

\* an execute_paper_trade was turned down for its quantity
C30_Witness ==
    /\ driver = "simulator"
    /\ runs > 0
    /\ signal \in {"BUY", "SELL"}
    /\ TurnedDown(signal)
    /\ initial_capital = 50 * Scale
    /\ capital = initial_capital
    /\ current_trade = NoTrade
    /\ position = None
    /\ db = EmptyDb

====
